---- MODULE Spec2Model ----
(***************************************************************************)
(* Model of ferrum's identity layer: the JSON-file account store           *)
(* (src/auth/user_repository.rs), the registration handler                 *)
(* (src/api/auth.rs), the token codec (src/auth/jwt.rs) and the request    *)
(* authenticator (src/auth/middleware.rs).                                 *)
(*                                                                         *)
(* The specifications share the variables:                                 *)
(*   Spec        request threads interleave at the granularity of lock     *)
(*               acquisitions and file-system calls;                       *)
(*   SpecSeq     the calls of the store, registration and login, one call  *)
(*               at a time;                                                *)
(*   SpecReg     registrations only, one at a time;                        *)
(*   SpecRegDel  registrations and deletions, one at a time;               *)
(*   SpecValid   registrations, also of malformed bodies, one at a time;   *)
(*   SpecLogin   logins interleaved with create, update and delete;        *)
(*   SpecRead    reads interleaved with create, update and delete;         *)
(*   SpecAuth    registrations and logins interleaved;                     *)
(*   SpecTrust   authentication with the tokens of registrations, among    *)
(*               updates and deletions, one call at a time;                *)
(*   SpecTok     the token codec and the request authenticator over a      *)
(*               clock;                                                    *)
(*   SpecLive    the calls of the store interleaved, every thread that can *)
(*               take a step eventually taking one;                        *)
(*   SpecPage    the pagination of song listings (src/models.rs,           *)
(*               src/api/music.rs).                                        *)
(***************************************************************************)
EXTENDS Integers, FiniteSets, Sequences, TLC

\* ---------------------------------------------------------------- bounds
NumThreads == 2
MaxIds == 2
MaxCalls == 3
MaxCrashes == 1
MaxFaults == 1
MaxTicks == 2
MaxTokens == 1
MaxSongs == 5
MaxParam == 3
UsizeBits == 16

Threads == 1..NumThreads
Ids == 1..MaxIds
\* Option<T>: None and Some(x)
None == << >>
Some(x) == <<x>>

\* ------------------------------------------------------------ the domain
Usernames == {"Alice", "alice", "bob"}

\* the names find_by_username is asked for: the usernames and one more
\* capitalization
QueryNames == Usernames \cup {"ALICE"}

\* str::to_lowercase, on the names of the model
ToLower(s) == IF s \in {"Alice", "ALICE"} THEN "alice" ELSE s

\* number of bytes of a username
NameLen(s) == IF s = "bob" THEN 3 ELSE 5

Passwords == {"pass-one"}

\* the passwords of login requests
LoginPasswords == {"pass-one", "pass-two"}

\* strings registration requests carry that the validation is to refuse: a
\* name of 2 and one of 33 characters, a name with a space, a password of 5
\* and one of 129 characters
ShortName == "ab"
LongName == "aaaaaaaaaaaaaaaaaaaaaaaaaaaaaaaaa"
SpacedName == "bo b"
ShortPassword == "short"
LongPassword ==
    "ppppppppppppppppppppppppppppppppppppppppppppppppppppppppppppppppp"
        \o "pppppppppppppppppppppppppppppppppppppppppppppppppppppppppppppppp"

\* the names of the model with a character outside [a-zA-Z0-9_]
OtherCharNames == {SpacedName}

\* USERNAME_REGEX.is_match: ^[a-zA-Z0-9_]+$
UsernameRegex(s) == s # "" /\ s \notin OtherCharNames

\* #[validate(...)] on RegisterRequest with the length rule of the username
\* left out
ValidationErrorsNoLength(body) ==
    (IF ~UsernameRegex(body.username)
     THEN {"Username can only contain letters, numbers, and underscores"} ELSE {})
    \cup (IF Len(body.password) < 8 \/ Len(body.password) > 128
          THEN {"Password must be 8-128 characters"} ELSE {})

\* body.validate(): the messages of the rules of RegisterRequest that fail
ValidationErrors(body) ==
    (IF Len(body.username) < 3 \/ Len(body.username) > 32
     THEN {"Username must be 3-32 characters"} ELSE {})
    \cup (IF ~UsernameRegex(body.username)
          THEN {"Username can only contain letters, numbers, and underscores"} ELSE {})
    \cup (IF Len(body.password) < 8 \/ Len(body.password) > 128
          THEN {"Password must be 8-128 characters"} ELSE {})

\* hash_password: a PHC string carrying the salt and the digest of the password
HashPassword(p, salt) == [wf |-> TRUE, salt |-> salt, pw |-> p]

\* a password_hash that is not a PHC string, as "hash" in the tests of the store
BadHash == [wf |-> FALSE, salt |-> "", pw |-> ""]

\* User::new: last_login starts as None
NewUser(id, username, password_hash, is_admin, created_at) ==
    [id |-> id, username |-> username, password_hash |-> password_hash,
     is_admin |-> is_admin, created_at |-> created_at, last_login |-> None]

\* the fields #[derive(Deserialize)] requires of every record of the file
UserFields ==
    {"id", "username", "password_hash", "is_admin", "created_at", "last_login"}

\* #[derive(Serialize)] with #[serde(skip_serializing)] on password_hash
SerializeUser(u) ==
    [id |-> u.id, username |-> u.username, is_admin |-> u.is_admin,
     created_at |-> u.created_at, last_login |-> u.last_login]

\* cache.values().cloned().collect() followed by serde_json::to_string_pretty
SerializeStore(c) == {SerializeUser(c[i]) : i \in DOMAIN c}

\* ------------------------------------------------------------- the files
Absent == [kind |-> "absent", users |-> {}]
EmptyFile == [kind |-> "empty", users |-> {}]
TornFile == [kind |-> "torn", users |-> {}]
FullFile(s) == [kind |-> "full", users |-> s]

\* bytes of one serialized record: braces, keys and the uuid are the same for
\* every record; the username, the boolean and the timestamp-or-null vary
RecLen(r) ==
    100 + NameLen(r.username) + (IF r.is_admin THEN 4 ELSE 5)
        + (IF r.last_login = None THEN 4 ELSE 32)

RECURSIVE SumLen(_)
SumLen(s) ==
    IF s = {} THEN 0
    ELSE LET r == CHOOSE x \in s : TRUE IN RecLen(r) + SumLen(s \ {r})

ByteLen(f) == IF f.kind = "full" THEN 20 + SumLen(f.users) ELSE 0

\* write_all at offset 0 of a descriptor whose file holds `old`: the bytes
\* beyond the new content stay
Overlay(old, new) ==
    IF old.kind \in {"absent", "empty"} \/ old = new THEN new
    ELSE IF old.kind = "torn" THEN TornFile
    ELSE IF ByteLen(new) >= ByteLen(old) THEN new
    ELSE TornFile

\* from_str accepting records that lack fields, as with #[serde(default)]
ParseOkAnyRecord(f) == f.kind = "full"

\* serde_json::from_str::<UserStore>: every record must carry every field
ParseOk(f) ==
    /\ f.kind = "full"
    /\ \A r \in f.users : UserFields \subseteq DOMAIN r

EmptyCache == << >>

\* the loop of load: cache.insert(user.id, user)
LoadedCache(f) ==
    [i \in {r.id : r \in f.users} |-> CHOOSE r \in f.users : r.id = i]

VARIABLES
    cache,      \* the HashMap<Uuid, User> behind the RwLock
    lock,       \* the RwLock: [writer, readers]
    canon,      \* content of file_path
    tmp,        \* content of file_path.with_extension("json.tmp")
    up,         \* "up", "down" (stopped), "failed" (JsonUserRepository::new returned Err)
    pc,         \* per thread: the statement it is at
    op,         \* per thread: the call it runs or ran last
    caller,     \* per thread: "register" when create was called by the handler
    arg,        \* per thread: the User (or request body, or id) of the call; a
                \* read and a refused login leave theirs for inspection
    res,        \* per thread: what the last call returned
    ret,        \* per thread: the value or the error body the last call returned
    snap,       \* per thread: `content` of save
    fd,         \* per thread: where the file opened by fs::write now lives
    calls,      \* calls started so far
    crashes,    \* process stops so far
    faults,     \* I/O errors the file system has returned so far
    lastCache,  \* history: the index the stopped process had, until it restarts
    registered, \* history: a registration has returned success
    live,       \* history: the id and username of every account whose create
                \* returned success and that no delete has removed
    now,        \* Utc::now().timestamp(), in seconds
    ticks,      \* clock advances so far
    ttlDays,    \* config.jwt_expiry_days
    leeway,     \* Validation::default().leeway of the jsonwebtoken build
    issued,     \* history: the tokens issued, with what they were issued for
    req         \* the last token or listing request handled: what, when, and
                \* its result

storeVars ==
    <<cache, lock, canon, tmp, up, pc, op, caller, arg, res, ret, snap, fd, calls,
      crashes, faults, lastCache, registered, live>>

tokVars == <<ticks, ttlDays, leeway, issued, req>>

vars == <<storeVars, now, tokVars>>

\* what no operation of the store changes
env == <<up, calls, crashes, lastCache, now, tokVars>>

\* env and the count of I/O errors
quiet == <<env, faults>>

NoArg == [id |-> 0]
NoReq == [kind |-> "none"]
NoRet == [kind |-> "none"]

\* config.jwt_expiry_days is any i64 the environment gives
TtlChoices == {0, 1, 7}

\* Validation::default().leeway: 0 up to jsonwebtoken 7, 60 from jsonwebtoken 8
Leeways == {0, 60}

Init ==
    /\ cache = EmptyCache
    /\ lock = [writer |-> {}, readers |-> {}]
    /\ canon = Absent
    /\ tmp = Absent
    /\ up = "up"
    /\ pc = [t \in Threads |-> "idle"]
    /\ op = [t \in Threads |-> "none"]
    /\ caller = [t \in Threads |-> "none"]
    /\ arg = [t \in Threads |-> NoArg]
    /\ res = [t \in Threads |-> "none"]
    /\ ret = [t \in Threads |-> NoRet]
    /\ snap = [t \in Threads |-> Absent]
    /\ fd = [t \in Threads |-> "closed"]
    /\ calls = 0
    /\ crashes = 0
    /\ faults = 0
    /\ lastCache = EmptyCache
    /\ registered = FALSE
    /\ live = {}
    /\ now = 0
    /\ ticks = 0
    /\ ttlDays \in TtlChoices
    /\ leeway \in Leeways
    /\ issued = {}
    /\ req = NoReq

\* the store runs under the default configuration: JWT_EXPIRY_DAYS unset
InitStore == Init /\ ttlDays = 7 /\ leeway = 60

\* ------------------------------------------------------------ token codec
SecondsPerDay == 86400

\* config.jwt_secret
Secret == "k1"

\* HMAC-SHA256 of the payload under a key: equal exactly for equal key and payload
Mac(key, payload) == <<key, payload>>

\* Claims::new with the expiry subtracted instead of added
ClaimsNewPast(user_id, username, is_admin, expiry_days, t) ==
    [sub |-> user_id, username |-> username, is_admin |-> is_admin,
     exp |-> t - expiry_days * SecondsPerDay, iat |-> t]

\* Claims::new at time t: exp = (now + Duration::days(expiry_days)).timestamp()
ClaimsNew(user_id, username, is_admin, expiry_days, t) ==
    [sub |-> user_id, username |-> username, is_admin |-> is_admin,
     exp |-> t + expiry_days * SecondsPerDay, iat |-> t]

\* the authenticator relying on the expiry check of the codec alone
IsExpiredSkipped(claims, t) == FALSE

\* Claims::is_expired at time t
IsExpired(claims, t) == t > claims.exp

\* encode_token: header, payload and the signature over them
EncodeToken(claims) ==
    [alg |-> "HS256", payload |-> claims, sig |-> Mac(Secret, claims)]

Ok(v) == [ok |-> TRUE, val |-> v]
Err(code, msg) == [ok |-> FALSE, code |-> code, msg |-> msg]

\* ResponseError::status_code, by error code
StatusCode(code) ==
    CASE code = "NOT_FOUND" -> 404
      [] code = "UNAUTHORIZED" -> 401
      [] code = "FORBIDDEN" -> 403
      [] code = "VALIDATION_ERROR" -> 422
      [] code = "CONFLICT" -> 409
      [] code = "BAD_REQUEST" -> 400
      [] OTHER -> 500

\* AppError::invalid_token()
InvalidToken == Err("UNAUTHORIZED", "Invalid or expired token")

\* decode_token with the signature check left out
DecodeTokenUnverified(token, t) ==
    IF token.alg # "HS256"
    THEN InvalidToken
    ELSE IF token.payload.exp < t - leeway
    THEN InvalidToken
    ELSE Ok(token.payload)

\* decode_token at time t: jsonwebtoken::decode with Validation::default()
\* checks the signature, then exp against the clock with the leeway; every
\* error maps to AppError::invalid_token()
DecodeToken(token, t) ==
    IF token.alg # "HS256" \/ token.sig # Mac(Secret, token.payload)
    THEN InvalidToken
    ELSE IF token.payload.exp < t - leeway
    THEN InvalidToken
    ELSE Ok(token.payload)

\* create_token_pair with expires_in a factor of 60 short
CreateTokenPairMinutes(user_id, username, is_admin, t) ==
    [access_token |-> EncodeToken(ClaimsNew(user_id, username, is_admin, ttlDays, t)),
     token_type |-> "Bearer",
     expires_in |-> ttlDays * 24 * 60]

\* create_token_pair at time t
CreateTokenPair(user_id, username, is_admin, t) ==
    [access_token |-> EncodeToken(ClaimsNew(user_id, username, is_admin, ttlDays, t)),
     token_type |-> "Bearer",
     expires_in |-> ttlDays * 24 * 60 * 60]

\* AuthenticatedUser::from_claims
FromClaims(claims) ==
    [id |-> claims.sub, username |-> claims.username, is_admin |-> claims.is_admin]

\* ---------------------------------------------------------------- RwLock
\* a read that takes no lock
CanReadUnlocked == TRUE

CanRead == lock.writer = {}
CanWrite == lock.writer = {} /\ lock.readers = {}

\* username_exists comparing the names as they are
NameTakenExact(c, username) ==
    \E i \in DOMAIN c : c[i].username = username

\* cache.values().find(|u| u.username.to_lowercase() == username_lower)
NameTaken(c, username) ==
    \E i \in DOMAIN c : ToLower(c[i].username) = ToLower(username)

\* HashMap::insert
Insert(c, u) == [i \in DOMAIN c \cup {u.id} |-> IF i = u.id THEN u ELSE c[i]]

\* HashMap::remove
Remove(c, id) == [i \in DOMAIN c \ {id} |-> c[i]]

\* users a caller of the repository may pass to create
InputUsers ==
    {NewUser(i, n, HashPassword("pass-one", "s1"), FALSE, 0) : i \in Ids, n \in Usernames}

\* a user whose password_hash the caller did not make with hash_password
UnhashedUsers == {NewUser(MaxIds, "bob", BadHash, FALSE, 0)}

\* users a caller of the repository may pass to update
UpdateUsers == {[u EXCEPT !.last_login = Some(0)] : u \in InputUsers}

\* users a caller passes to update to change the credential of an account
CredentialUpdates ==
    {NewUser(i, "Alice", HashPassword("pass-two", "s1"), FALSE, 0) : i \in Ids}

\* AppError::invalid_credentials()
InvalidCredentials == Err("UNAUTHORIZED", "Invalid username or password")

\* the body of an error response
ErrorBody(e) == [kind |-> "error", err |-> e]

\* AuthResponse {user: UserResponse::from(&user), token}, the token made now
AuthBody(u) ==
    [kind |-> "auth",
     user |-> [id |-> u.id, username |-> u.username, is_admin |-> u.is_admin],
     token |-> CreateTokenPair(u.id, u.username, u.is_admin, now)]

\* login with `repo.update(updated_user)?` in place of `let _ = ...`
LoginAfterUpdateTry(r) == r

\* login: `let _ = repo.update(updated_user);` drops what update returned and
\* goes on to the token
LoginAfterUpdate(r) == "ok"

\* what the handler that made the repository call returns when the call
\* returns r: register passes r up with `?`
Outcome(t, r) == IF caller[t] = "login" THEN LoginAfterUpdate(r) ELSE r

\* AppError::Io(e), made by `?` from the io::Error of the file-system call of
\* save that failed; its Display carries that of the io::Error
IoError(site) == Err("IO_ERROR", <<"IO error", site>>)

\* the response body of a handler that returns o: the AuthResponse, or the
\* error_response of the AppError that create passed up
Body(t, o) ==
    IF caller[t] \in {"register", "login"} /\ o = "ok" THEN AuthBody(arg[t])
    ELSE IF caller[t] = "register" /\ o = "io" THEN ErrorBody(IoError(pc[t]))
    ELSE NoRet

\* a call returns r with the value or body v
Reply(t, r, v) ==
    /\ pc' = [pc EXCEPT ![t] = "idle"]
    /\ res' = [res EXCEPT ![t] = r]
    /\ ret' = [ret EXCEPT ![t] = v]
    /\ snap' = [snap EXCEPT ![t] = Absent]
    /\ caller' = [caller EXCEPT ![t] = "none"]

\* a mutation returns r to its caller, and the handler (if any) returns; the
\* User it was given goes out of scope
Return(t, r) ==
    /\ Reply(t, Outcome(t, r), Body(t, Outcome(t, r)))
    /\ arg' = [arg EXCEPT ![t] = NoArg]

Goto(t, label) ==
    /\ pc' = [pc EXCEPT ![t] = label]
    /\ UNCHANGED <<res, ret, arg, snap, caller>>

\* a request thread starts a call
Begin(t, o, a, c, label) ==
    /\ up = "up"
    /\ pc[t] = "idle"
    /\ calls < MaxCalls
    /\ calls' = calls + 1
    /\ op' = [op EXCEPT ![t] = o]
    /\ arg' = [arg EXCEPT ![t] = a]
    /\ caller' = [caller EXCEPT ![t] = c]
    /\ res' = [res EXCEPT ![t] = "none"]
    /\ ret' = [ret EXCEPT ![t] = NoRet]
    /\ pc' = [pc EXCEPT ![t] = label]
    /\ UNCHANGED <<cache, lock, canon, tmp, snap, fd>>
    /\ UNCHANGED <<up, crashes, faults, lastCache, registered, live, now, tokVars>>

\* ----------------------------------------------- JsonUserRepository::create
CallCreate(t) == \E u \in InputUsers : Begin(t, "create", u, "none", "c_check")

CallCreateUnhashed(t) ==
    \E u \in UnhashedUsers : Begin(t, "create", u, "none", "c_check")

\* if self.username_exists(&user.username)? { return Err(Conflict) }
CreateCheck(t) ==
    /\ pc[t] = "c_check"
    /\ CanRead
    /\ IF NameTaken(cache, arg[t].username)
       THEN Return(t, "conflict")
       ELSE Goto(t, "c_lock")
    /\ UNCHANGED <<cache, lock, canon, tmp, op, fd, quiet, registered, live>>

\* let mut cache = self.cache.write();
CreateLock(t) ==
    /\ pc[t] = "c_lock"
    /\ CanWrite
    /\ lock' = [lock EXCEPT !.writer = {t}]
    /\ Goto(t, "c_insert")
    /\ UNCHANGED <<cache, canon, tmp, op, fd, quiet, registered, live>>

\* create keeping its write guard over the call of save
CreateInsertHolding(t) ==
    /\ pc[t] = "c_insert"
    /\ cache' = Insert(cache, arg[t])
    /\ Goto(t, "s_lock")
    /\ UNCHANGED <<lock, canon, tmp, op, fd, quiet, registered, live>>

\* cache.insert(user.id, user.clone()); the guard drops at the end of the block
CreateInsert(t) ==
    /\ pc[t] = "c_insert"
    /\ cache' = Insert(cache, arg[t])
    /\ lock' = [lock EXCEPT !.writer = {}]
    /\ Goto(t, "s_lock")
    /\ UNCHANGED <<canon, tmp, op, fd, quiet, registered, live>>

\* ----------------------------------------------- JsonUserRepository::update
CallUpdate(t) == \E u \in UpdateUsers : Begin(t, "update", u, "none", "u_lock")

CallUpdateCredential(t) ==
    \E u \in CredentialUpdates : Begin(t, "update", u, "none", "u_lock")

\* let mut cache = self.cache.write();
UpdateLock(t) ==
    /\ pc[t] = "u_lock"
    /\ CanWrite
    /\ lock' = [lock EXCEPT !.writer = {t}]
    /\ Goto(t, "u_apply")
    /\ UNCHANGED <<cache, canon, tmp, op, fd, quiet, registered, live>>

\* update inserting without the contains_key check
UpdateApplyUpsert(t) ==
    /\ pc[t] = "u_apply"
    /\ lock' = [lock EXCEPT !.writer = {}]
    /\ cache' = Insert(cache, arg[t]) /\ Goto(t, "s_lock")
    /\ UNCHANGED <<canon, tmp, op, fd, quiet, registered, live>>

\* if !cache.contains_key(&user.id) { return Err(NotFound) }
\* cache.insert(user.id, user.clone()); the guard drops either way
UpdateApply(t) ==
    /\ pc[t] = "u_apply"
    /\ lock' = [lock EXCEPT !.writer = {}]
    /\ IF arg[t].id \notin DOMAIN cache
       THEN Return(t, "notfound") /\ UNCHANGED cache
       ELSE cache' = Insert(cache, arg[t]) /\ Goto(t, "s_lock")
    /\ UNCHANGED <<canon, tmp, op, fd, quiet, registered, live>>

\* ----------------------------------------------- JsonUserRepository::delete
CallDelete(t) == \E i \in Ids : Begin(t, "delete", [id |-> i], "none", "d_lock")

\* let mut cache = self.cache.write();
DeleteLock(t) ==
    /\ pc[t] = "d_lock"
    /\ CanWrite
    /\ lock' = [lock EXCEPT !.writer = {t}]
    /\ Goto(t, "d_apply")
    /\ UNCHANGED <<cache, canon, tmp, op, fd, quiet, registered, live>>

\* cache.remove(&id).is_some(); if removed { self.save()? }; Ok(removed)
DeleteApply(t) ==
    /\ pc[t] = "d_apply"
    /\ lock' = [lock EXCEPT !.writer = {}]
    /\ IF arg[t].id \in DOMAIN cache
       THEN cache' = Remove(cache, arg[t].id) /\ Goto(t, "s_lock")
       ELSE Return(t, "false") /\ UNCHANGED cache
    /\ live' = {a \in live : a.id # arg[t].id}
    /\ UNCHANGED <<canon, tmp, op, fd, quiet, registered>>

\* ------------------------------------------------- JsonUserRepository::save
\* let cache = self.cache.read(); ...; let content = to_string_pretty(&store)?
SaveLock(t) ==
    /\ pc[t] = "s_lock"
    /\ CanRead
    /\ lock' = [lock EXCEPT !.readers = @ \cup {t}]
    /\ snap' = [snap EXCEPT ![t] = FullFile(SerializeStore(cache))]
    /\ pc' = [pc EXCEPT ![t] = "s_open"]
    /\ UNCHANGED <<cache, canon, tmp, op, caller, arg, res, ret, fd, quiet, registered, live>>

\* what the caller of save returns when save succeeded
SaveOk(t) == IF op[t] = "delete" THEN "true" ELSE "ok"

\* the `?` of save: the read guard drops and the error goes up to the caller
SaveFail(t) ==
    /\ lock' = [lock EXCEPT !.readers = @ \ {t}]
    /\ fd' = [fd EXCEPT ![t] = "closed"]
    /\ Return(t, "io")

\* std::fs::write, first half: File::create opens temp_path with O_CREAT|O_TRUNC,
\* or fails
SaveOpen(t) ==
    /\ pc[t] = "s_open"
    /\ \/ /\ tmp' = EmptyFile
          /\ fd' = [fd EXCEPT ![t] = "tmp"]
          /\ Goto(t, "s_write")
          /\ UNCHANGED <<lock, faults>>
       \/ /\ faults < MaxFaults
          /\ faults' = faults + 1
          /\ SaveFail(t)
          /\ UNCHANGED tmp
    /\ UNCHANGED <<cache, canon, op, env, registered, live>>

\* std::fs::write, second half: write_all on the open descriptor, then close
SaveWrite(t) ==
    /\ pc[t] = "s_write"
    /\ CASE fd[t] = "tmp" -> tmp' = Overlay(tmp, snap[t]) /\ UNCHANGED canon
         [] fd[t] = "canon" -> canon' = Overlay(canon, snap[t]) /\ UNCHANGED tmp
         [] OTHER -> UNCHANGED <<canon, tmp>>
    /\ fd' = [fd EXCEPT ![t] = "closed"]
    /\ Goto(t, "s_rename")
    /\ UNCHANGED <<cache, lock, op, quiet, registered, live>>

\* rename(2) moves the file of temp_path over file_path: descriptors open on
\* either file follow the file, not the name
FdAfterRename(f) ==
    IF f = "tmp" THEN "canon" ELSE IF f = "canon" THEN "orphan" ELSE f

\* the account a create (also the create of register) returns, if t runs one
Created(t) ==
    IF op[t] \in {"create", "register"}
    THEN {[id |-> arg[t].id, username |-> arg[t].username]}
    ELSE {}

\* std::fs::rename(&temp_path, &self.file_path)?; Ok(()), the read guard drops
\* and the caller returns Ok
SaveRename(t) ==
    /\ pc[t] = "s_rename"
    /\ IF tmp.kind = "absent"
       THEN /\ SaveFail(t)
            /\ UNCHANGED <<canon, tmp, registered, live>>
       ELSE /\ canon' = tmp
            /\ tmp' = Absent
            /\ fd' = [x \in Threads |-> FdAfterRename(fd[x])]
            /\ lock' = [lock EXCEPT !.readers = @ \ {t}]
            /\ registered' = (registered \/ caller[t] = "register")
            /\ live' = live \cup Created(t)
            /\ Return(t, SaveOk(t))
    /\ UNCHANGED <<cache, op, quiet>>

\* ------------------------------------------------------ register (handler)
Salts == {"s1"}

\* Uuid::new_v4(): an id no stored or in-flight account carries
FreshIds == Ids \ (DOMAIN cache \cup {arg[x].id : x \in Threads})

\* AppError::Validation(e.to_string())
ValidationError(body) == Err("VALIDATION_ERROR", ValidationErrors(body))

\* a handler returns r with the body v from its first statement
Refuse(t, o, a, r, v) ==
    /\ up = "up"
    /\ pc[t] = "idle"
    /\ calls < MaxCalls
    /\ calls' = calls + 1
    /\ op' = [op EXCEPT ![t] = o]
    /\ arg' = [arg EXCEPT ![t] = a]
    /\ res' = [res EXCEPT ![t] = r]
    /\ ret' = [ret EXCEPT ![t] = v]
    /\ UNCHANGED <<cache, lock, canon, tmp, pc, caller, snap, fd>>
    /\ UNCHANGED <<up, crashes, faults, lastCache, registered, live, now, tokVars>>

\* body.validate().map_err(|e| AppError::Validation(e.to_string()))?; then
\* the handler goes on to username_exists
RegisterValidate(t, body) ==
    IF ValidationErrors(body) = {}
    THEN Begin(t, "register", body, "register", "r_exists")
    ELSE Refuse(t, "register", body, "validation", ErrorBody(ValidationError(body)))

CallRegister(t) ==
    \E n \in Usernames, p \in Passwords :
        RegisterValidate(t, [id |-> 0, username |-> n, password |-> p])

\* registrations with the other password of the model
CallRegisterOther(t) ==
    \E n \in Usernames, p \in LoginPasswords \ Passwords :
        RegisterValidate(t, [id |-> 0, username |-> n, password |-> p])

\* request bodies with a string out of the limits or out of the alphabet
MalformedBodies ==
    {[id |-> 0, username |-> n, password |-> p] :
        n \in {ShortName, LongName, SpacedName}, p \in Passwords}
    \cup {[id |-> 0, username |-> n, password |-> p] :
            n \in {"bob"}, p \in {ShortPassword, LongPassword}}

CallRegisterMalformed(t) == \E body \in MalformedBodies : RegisterValidate(t, body)

\* if repo.username_exists(&body.username)? { return Err(Conflict) }
RegisterExists(t) ==
    /\ pc[t] = "r_exists"
    /\ CanRead
    /\ IF NameTaken(cache, arg[t].username)
       THEN Return(t, "conflict")
       ELSE Goto(t, "r_count")
    /\ UNCHANGED <<cache, lock, canon, tmp, op, fd, quiet, registered, live>>

\* let is_admin = repo.count()? == 0; hash_password; User::new; repo.create(user)
RegisterCount(t) ==
    /\ pc[t] = "r_count"
    /\ CanRead
    /\ \E i \in FreshIds, salt \in Salts :
          arg' = [arg EXCEPT ![t] =
                    NewUser(i, arg[t].username, HashPassword(arg[t].password, salt),
                            Cardinality(DOMAIN cache) = 0, now)]
    /\ pc' = [pc EXCEPT ![t] = "c_check"]
    /\ UNCHANGED <<cache, lock, canon, tmp, op, caller, res, ret, snap, fd, quiet, registered, live>>

\* -------------------------------------------------- the reads of the store
\* find_by_username comparing the names as they are
FindByUsernameExact(c, username) ==
    {c[i] : i \in {j \in DOMAIN c : c[j].username = username}}

\* the accounts find_by_username can return: cache.values().find(...) takes
\* the first match in the iteration order of the HashMap, which is arbitrary
FindByUsername(c, username) ==
    {c[i] : i \in {j \in DOMAIN c : ToLower(c[j].username) = ToLower(username)}}

\* cache.get(&id).cloned()
FindById(c, id) == IF id \in DOMAIN c THEN Some(c[id]) ELSE None

\* the values the reads return
UserVal(o) == [kind |-> "user", user |-> o]
ListVal(us) == [kind |-> "users", users |-> us]
CountVal(n) == [kind |-> "count", n |-> n]

CallFindById(t) ==
    \E i \in Ids : Begin(t, "find_by_id", [id |-> i], "none", "f_id")

\* let cache = self.cache.read(); Ok(cache.get(&id).cloned())
ReadById(t) ==
    /\ pc[t] = "f_id"
    /\ CanRead
    /\ Reply(t, "ok", UserVal(FindById(cache, arg[t].id)))
    /\ UNCHANGED <<cache, lock, canon, tmp, op, arg, fd, quiet, registered, live>>

CallFindByUsername(t) ==
    \E n \in QueryNames :
        Begin(t, "find_by_username", [id |-> 0, username |-> n], "none", "f_name")

\* let cache = self.cache.read(); Ok(cache.values().find(...).cloned())
ReadByUsername(t) ==
    /\ pc[t] = "f_name"
    /\ CanRead
    /\ LET found == FindByUsername(cache, arg[t].username) IN
       IF found = {}
       THEN Reply(t, "ok", UserVal(None))
       ELSE \E u \in found : Reply(t, "ok", UserVal(Some(u)))
    /\ UNCHANGED <<cache, lock, canon, tmp, op, arg, fd, quiet, registered, live>>

CallListAll(t) == Begin(t, "list_all", NoArg, "none", "f_all")

\* let cache = self.cache.read(); Ok(cache.values().cloned().collect())
ReadAll(t) ==
    /\ pc[t] = "f_all"
    /\ CanRead
    /\ Reply(t, "ok", ListVal({cache[i] : i \in DOMAIN cache}))
    /\ UNCHANGED <<cache, lock, canon, tmp, op, arg, fd, quiet, registered, live>>

CallCount(t) == Begin(t, "count", NoArg, "none", "f_count")

\* let cache = self.cache.read(); Ok(cache.len())
ReadCount(t) ==
    /\ pc[t] = "f_count"
    /\ CanRead
    /\ Reply(t, "ok", CountVal(Cardinality(DOMAIN cache)))
    /\ UNCHANGED <<cache, lock, canon, tmp, op, arg, fd, quiet, registered, live>>

\* --------------------------------------------------------- login (handler)
\* verify_password taking a hash that does not parse for one that does not match
VerifyPasswordMismatch(password, hash) ==
    IF ~hash.wf
    THEN Ok(FALSE)
    ELSE Ok(HashPassword(password, hash.salt) = hash)

\* verify_password: PasswordHash::new fails on a string that is not a PHC
\* string; otherwise Argon2 recomputes the digest under the salt of the hash
VerifyPassword(password, hash) ==
    IF ~hash.wf
    THEN Err("INTERNAL_ERROR", "Failed to verify password")
    ELSE Ok(HashPassword(password, hash.salt) = hash)

\* login answering an unknown username with an error of its own
LoginNoUserNotFound == Err("NOT_FOUND", "User not found")

\* .ok_or_else(|| AppError::invalid_credentials()): no account has the username
LoginNoUser == InvalidCredentials

\* return Err(AppError::invalid_credentials()): the password does not verify
LoginWrongPassword == InvalidCredentials

CallLogin(t) ==
    \E n \in Usernames, p \in LoginPasswords :
        Begin(t, "login", [id |-> 0, username |-> n, password |-> p], "none", "l_find")

\* find_by_username(..)?.ok_or_else(invalid_credentials)?; verify_password;
\* updated_user = user.clone() with last_login = Some(Utc::now()); the handler
\* then calls repo.update(updated_user)
LoginFind(t) ==
    /\ pc[t] = "l_find"
    /\ CanRead
    /\ LET found == FindByUsername(cache, arg[t].username) IN
       IF found = {}
       THEN Reply(t, "unauthorized", ErrorBody(LoginNoUser)) /\ UNCHANGED arg
       ELSE \E user \in found :
              LET v == VerifyPassword(arg[t].password, user.password_hash) IN
              IF ~v.ok
              THEN Reply(t, "internal", ErrorBody(v)) /\ UNCHANGED arg
              ELSE IF ~v.val
              THEN Reply(t, "unauthorized", ErrorBody(LoginWrongPassword))
                   /\ UNCHANGED arg
              ELSE /\ arg' = [arg EXCEPT ![t] = [user EXCEPT !.last_login = Some(now)]]
                   /\ caller' = [caller EXCEPT ![t] = "login"]
                   /\ pc' = [pc EXCEPT ![t] = "u_lock"]
                   /\ UNCHANGED <<res, ret, snap>>
    /\ UNCHANGED <<cache, lock, canon, tmp, op, fd, quiet, registered, live>>

\* ------------------------------------------------- the process stops, starts
\* the process is killed (or shut down): memory is lost, the files stay
Crash ==
    /\ up = "up"
    /\ crashes < MaxCrashes
    /\ crashes' = crashes + 1
    /\ up' = "down"
    /\ lastCache' = cache
    /\ cache' = EmptyCache
    /\ lock' = [writer |-> {}, readers |-> {}]
    /\ pc' = [t \in Threads |-> "idle"]
    /\ arg' = [t \in Threads |-> NoArg]
    /\ snap' = [t \in Threads |-> Absent]
    /\ caller' = [t \in Threads |-> "none"]
    /\ fd' = [t \in Threads |-> "closed"]
    /\ res' = [t \in Threads |-> "none"]
    /\ ret' = [t \in Threads |-> NoRet]
    /\ op' = [t \in Threads |-> "none"]
    /\ UNCHANGED <<canon, tmp, calls, faults, registered, live, now, tokVars>>

\* JsonUserRepository::new: load() reads file_path if it exists
Restart ==
    /\ up = "down"
    /\ IF canon.kind = "absent"
       THEN up' = "up" /\ cache' = EmptyCache
       ELSE IF ParseOk(canon)
       THEN up' = "up" /\ cache' = LoadedCache(canon)
       ELSE up' = "failed" /\ UNCHANGED cache
    /\ lastCache' = EmptyCache
    /\ UNCHANGED <<lock, canon, tmp, pc, op, caller, arg, res, ret, snap, fd, calls,
                   crashes, faults, registered, live, now, tokVars>>

\* ------------------------------------------------ the request authenticator
\* the Authorization header: absent, or a scheme prefix followed by a token
Schemes == {"Bearer ", "bearer ", "BEARER ", "Basic "}
NoHeader == [present |-> FALSE]
Header(scheme, token) == [present |-> TRUE, scheme |-> scheme, token |-> token]

\* auth_header.strip_prefix("Bearer ").or_else(|| auth_header.strip_prefix("bearer "))
StripsPrefix(h) == h.scheme \in {"Bearer ", "bearer "}

\* the authenticator answering an expired token with an error of its own
ExpiredErrorDistinct == Err("UNAUTHORIZED", "Token expired")

\* if claims.is_expired() { return Err(AppError::invalid_token()) }
ExpiredError == InvalidToken

\* .ok_or_else(|| AppError::Unauthorized("Missing Authorization header"))
MissingHeaderError == Err("UNAUTHORIZED", "Missing Authorization header")

\* a header without the prefix answered as a missing header is
HeaderFormatErrorAsMissing == Err("UNAUTHORIZED", "Missing Authorization header")

\* .ok_or_else(|| AppError::Unauthorized("Invalid Authorization header format..."))
HeaderFormatError ==
    Err("UNAUTHORIZED", "Invalid Authorization header format. Expected: Bearer <token>")

\* extract_user looking the subject of the token up in the store
ExtractUserChecked(h, t) ==
    IF ~h.present
    THEN MissingHeaderError
    ELSE IF ~StripsPrefix(h)
    THEN HeaderFormatError
    ELSE LET d == DecodeToken(h.token, t) IN
         IF ~d.ok THEN d
         ELSE IF IsExpired(d.val, t) \/ d.val.sub \notin DOMAIN cache THEN InvalidToken
         ELSE Ok(FromClaims(d.val))

\* extract_user at time t
ExtractUser(h, t) ==
    IF ~h.present
    THEN MissingHeaderError
    ELSE IF ~StripsPrefix(h)
    THEN HeaderFormatError
    ELSE LET d == DecodeToken(h.token, t) IN
         IF ~d.ok THEN d
         ELSE IF IsExpired(d.val, t) THEN ExpiredError
         ELSE Ok(FromClaims(d.val))

\* the accounts tokens are issued for
TokenUsers ==
    {[id |-> 1, username |-> "Alice", is_admin |-> TRUE],
     [id |-> 2, username |-> "bob", is_admin |-> FALSE]}

\* seconds the clock may advance in one step
TickSteps == {1, 60, SecondsPerDay}

Tick ==
    /\ ticks < MaxTicks
    /\ ticks' = ticks + 1
    /\ \E d \in TickSteps : now' = now + d
    /\ UNCHANGED <<storeVars, ttlDays, leeway, issued, req>>

\* register and login end with jwt::create_token_pair(user.id, username, is_admin)
Issue ==
    /\ Cardinality(issued) < MaxTokens
    /\ \E u \in TokenUsers :
          issued' = issued \cup
              {[for |-> u, at |-> now,
                pair |-> CreateTokenPair(u.id, u.username, u.is_admin, now)]}
    /\ UNCHANGED <<storeVars, now, ticks, ttlDays, leeway, req>>

IssuedTokens == {r.pair.access_token : r \in issued}

\* a key that is not config.jwt_secret
OtherSecret == "k2"

\* what a client can make of a token it holds without the secret: the payload
\* signed under another key, the payload changed under the old signature, and
\* a string whose header segment does not decode
Forgeries(token) ==
    {[token EXCEPT !.sig = Mac(OtherSecret, token.payload)],
     [token EXCEPT !.payload.is_admin = ~@],
     [token EXCEPT !.alg = "?"]}

\* the tokens a client may present
PresentedTokens == IssuedTokens \cup UNION {Forgeries(token) : token \in IssuedTokens}

\* a caller presents a token to decode_token
Decode ==
    /\ \E token \in PresentedTokens :
          req' = [kind |-> "decode", token |-> token, at |-> now,
                  out |-> DecodeToken(token, now)]
    /\ UNCHANGED <<storeVars, now, ticks, ttlDays, leeway, issued>>

\* the Authorization headers of the requests: none, an issued token under
\* every scheme, a forged token under the standard scheme
Headers ==
    {NoHeader}
        \cup {Header(s, token) : s \in Schemes, token \in IssuedTokens}
        \cup {Header("Bearer ", token) : token \in PresentedTokens}

\* a request reaches a handler that takes AuthenticatedUser
Extract ==
    /\ \E h \in Headers :
          req' = [kind |-> "extract", header |-> h, at |-> now,
                  out |-> ExtractUser(h, now)]
    /\ UNCHANGED <<storeVars, now, ticks, ttlDays, leeway, issued>>

NextTok == Tick \/ Issue \/ Decode \/ Extract

SpecTok == Init /\ [][NextTok]_vars

\* ------------------------------------------------------------ pagination
\* usize: page, per_page and total are unsigned words of UsizeBits bits
UsizeMax == 2^UsizeBits - 1

\* wrapping arithmetic, as a build without overflow checks computes
Wrap(x) == x % (UsizeMax + 1)

Min(a, b) == IF a < b THEN a ELSE b
Max(a, b) == IF a > b THEN a ELSE b

\* Ord::clamp
Clamp(x, lo, hi) == Max(lo, Min(x, hi))

\* the upper limit list_music puts on per_page
PerPageMax == 100

\* the thread panics: no response is built
Panicked(msg) == [ok |-> FALSE, panic |-> msg]

\* PaginatedResponse::from_vec on n items: (total + per_page - 1) / per_page
\* in usize; with overflow checks (checks) an overflowing + or - panics,
\* without them it wraps; a division by zero panics in every build
FromVec(n, page, per_page, total, checks) ==
    IF checks /\ total + per_page > UsizeMax
    THEN Panicked("attempt to add with overflow")
    ELSE IF checks /\ total + per_page = 0
    THEN Panicked("attempt to subtract with overflow")
    ELSE IF per_page = 0
    THEN Panicked("attempt to divide by zero")
    ELSE Ok([items |-> n, total |-> total, page |-> page, per_page |-> per_page,
             total_pages |-> Wrap(Wrap(total + per_page) - 1) \div per_page,
             has_next |-> page < Wrap(Wrap(total + per_page) - 1) \div per_page,
             has_prev |-> page > 1])

\* values of page and per_page: small ones, the limit of list_music and its
\* successor, and the largest usize
Params == (0..MaxParam) \cup {PerPageMax, PerPageMax + 1, UsizeMax}

\* values of total: small ones and the two largest of usize
Totals == (0..MaxSongs) \cup {UsizeMax - 1, UsizeMax}

\* a caller applies PaginatedResponse::from_vec
CallFromVec ==
    /\ \E page \in Params, per_page \in Params, total \in Totals, checks \in BOOLEAN :
          req' = [kind |-> "from_vec", checks |-> checks, page |-> page,
                  per_page |-> per_page, total |-> total, called |-> TRUE,
                  out |-> FromVec(Min(per_page, total), page, per_page, total, checks)]
    /\ UNCHANGED <<storeVars, now, ticks, ttlDays, leeway, issued>>

\* list_music on a query with the given page and per_page, total songs left
\* by the filters: clamp, read_dir (which may fail), start = (page - 1) *
\* per_page, skip(start).take(per_page), from_vec
ListMusic ==
    /\ \E q_page \in Params, q_per_page \in Params, total \in 0..MaxSongs,
          checks \in BOOLEAN, readable \in BOOLEAN :
          LET per_page == Clamp(q_per_page, 1, PerPageMax)
              page == Max(q_page, 1)
              start == (page - 1) * per_page
              request == [kind |-> "list", checks |-> checks, page |-> page,
                          per_page |-> per_page, total |-> total]
              called(b, o) == [c \in {"called", "out"} |-> IF c = "called" THEN b ELSE o]
          IN  req' = request @@
                  (IF ~readable
                   THEN called(FALSE, IoError("read_dir"))
                   ELSE IF checks /\ start > UsizeMax
                   THEN called(FALSE, Panicked("attempt to multiply with overflow"))
                   ELSE called(TRUE, FromVec(Min(per_page, Max(total - Wrap(start), 0)),
                                             page, per_page, total, checks)))
    /\ UNCHANGED <<storeVars, now, ticks, ttlDays, leeway, issued>>

NextPage == CallFromVec \/ ListMusic

SpecPage == InitStore /\ [][NextPage]_vars

\* ------------------------------------------------------- specifications
Call(t) ==
    \/ CallCreate(t)
    \/ CallUpdate(t)
    \/ CallDelete(t)
    \/ CallRegister(t)

Step(t) ==
    \/ CreateCheck(t)
    \/ CreateLock(t)
    \/ CreateInsert(t)
    \/ UpdateLock(t)
    \/ UpdateApply(t)
    \/ DeleteLock(t)
    \/ DeleteApply(t)
    \/ SaveLock(t)
    \/ SaveOpen(t)
    \/ SaveWrite(t)
    \/ SaveRename(t)
    \/ RegisterExists(t)
    \/ RegisterCount(t)

Next ==
    \/ \E t \in Threads : Call(t) \/ Step(t)
    \/ Crash
    \/ Restart

Spec == InitStore /\ [][Next]_vars

\* the calls that read the store, login, and the calls that set a credential
CallOther(t) ==
    \/ CallCreateUnhashed(t)
    \/ CallUpdateCredential(t)
    \/ CallFindById(t)
    \/ CallFindByUsername(t)
    \/ CallListAll(t)
    \/ CallCount(t)
    \/ CallLogin(t)

StepOther(t) ==
    \/ ReadById(t)
    \/ ReadByUsername(t)
    \/ ReadAll(t)
    \/ ReadCount(t)
    \/ LoginFind(t)

\* one call at a time: a call starts only when no other is in flight
AllIdle == \A t \in Threads : pc[t] = "idle"

NextSeq ==
    \/ \E t \in Threads :
          (AllIdle /\ (Call(t) \/ CallOther(t))) \/ Step(t) \/ StepOther(t)
    \/ Crash
    \/ Restart

SpecSeq == InitStore /\ [][NextSeq]_vars

\* logins among calls of the repository, the threads interleaving, the
\* process staying up
NextLogin ==
    \E t \in Threads :
        \/ CallCreate(t)
        \/ CallUpdate(t)
        \/ CallUpdateCredential(t)
        \/ CallDelete(t)
        \/ CallLogin(t)
        \/ CreateCheck(t)
        \/ CreateLock(t)
        \/ CreateInsert(t)
        \/ UpdateLock(t)
        \/ UpdateApply(t)
        \/ DeleteLock(t)
        \/ DeleteApply(t)
        \/ SaveLock(t)
        \/ SaveOpen(t)
        \/ SaveWrite(t)
        \/ SaveRename(t)
        \/ LoginFind(t)

SpecLogin == InitStore /\ [][NextLogin]_vars

\* reads among create, update and delete, the threads interleaving, the
\* process staying up
NextRead ==
    \E t \in Threads :
        \/ CallCreate(t)
        \/ CallUpdate(t)
        \/ CallDelete(t)
        \/ CallFindById(t)
        \/ CallFindByUsername(t)
        \/ CallListAll(t)
        \/ CallCount(t)
        \/ CreateCheck(t)
        \/ CreateLock(t)
        \/ CreateInsert(t)
        \/ UpdateLock(t)
        \/ UpdateApply(t)
        \/ DeleteLock(t)
        \/ DeleteApply(t)
        \/ SaveLock(t)
        \/ SaveOpen(t)
        \/ SaveWrite(t)
        \/ SaveRename(t)
        \/ ReadById(t)
        \/ ReadByUsername(t)
        \/ ReadAll(t)
        \/ ReadCount(t)

SpecRead == InitStore /\ [][NextRead]_vars

\* the statements a registration runs through
StepReg(t) ==
    \/ RegisterExists(t)
    \/ RegisterCount(t)
    \/ CreateCheck(t)
    \/ CreateLock(t)
    \/ CreateInsert(t)
    \/ SaveLock(t)
    \/ SaveOpen(t)
    \/ SaveWrite(t)
    \/ SaveRename(t)

\* registrations only, one at a time
NextReg ==
    \/ \E t \in Threads : (AllIdle /\ CallRegister(t)) \/ StepReg(t)
    \/ Crash
    \/ Restart

SpecReg == InitStore /\ [][NextReg]_vars

\* registrations and deletions, one at a time
NextRegDel ==
    \/ \E t \in Threads :
          \/ AllIdle /\ (CallRegister(t) \/ CallDelete(t))
          \/ StepReg(t)
          \/ DeleteLock(t)
          \/ DeleteApply(t)
    \/ Crash
    \/ Restart

SpecRegDel == InitStore /\ [][NextRegDel]_vars

\* registrations, also with bodies the validation is to refuse, one at a time
NextValid ==
    \E t \in Threads :
        \/ AllIdle /\ (CallRegister(t) \/ CallRegisterMalformed(t))
        \/ StepReg(t)

SpecValid == InitStore /\ [][NextValid]_vars

\* the handlers register and login, the threads interleaving, the process
\* staying up
NextAuth ==
    \E t \in Threads :
        \/ CallRegister(t)
        \/ CallRegisterOther(t)
        \/ CallLogin(t)
        \/ StepReg(t)
        \/ LoginFind(t)
        \/ UpdateLock(t)
        \/ UpdateApply(t)

SpecAuth == InitStore /\ [][NextAuth]_vars

\* the statements of the calls of the store
StoreStep(t) ==
    \/ CreateCheck(t)
    \/ CreateLock(t)
    \/ CreateInsert(t)
    \/ UpdateLock(t)
    \/ UpdateApply(t)
    \/ DeleteLock(t)
    \/ DeleteApply(t)
    \/ SaveLock(t)
    \/ SaveOpen(t)
    \/ SaveWrite(t)
    \/ SaveRename(t)
    \/ ReadById(t)
    \/ ReadByUsername(t)
    \/ ReadAll(t)
    \/ ReadCount(t)

\* the seven operations of the store called from interleaving threads
NextLive ==
    \E t \in Threads :
        \/ CallCreate(t)
        \/ CallUpdate(t)
        \/ CallDelete(t)
        \/ CallFindById(t)
        \/ CallFindByUsername(t)
        \/ CallListAll(t)
        \/ CallCount(t)
        \/ StoreStep(t)

\* every thread that can take its next statement eventually takes it: the
\* scheduler runs every runnable thread, a file-system call returns, and the
\* RwLock hands the lock to a waiting thread once it is free
SpecLive == InitStore /\ [][NextLive]_vars /\ \A t \in Threads : WF_vars(StoreStep(t))

\* the client that made the request of thread t takes the token out of the
\* AuthResponse it got, to present it in later requests
ReceiveToken(t) ==
    /\ pc[t] = "idle"
    /\ ret[t].kind = "auth"
    /\ Cardinality(issued) < MaxTokens
    /\ issued' = issued \cup
          {[for |-> ret[t].user, at |-> ret[t].token.access_token.payload.iat,
            pair |-> ret[t].token]}
    /\ UNCHANGED <<storeVars, now, ticks, ttlDays, leeway, req>>

\* requests with tokens that registrations returned, among updates and
\* deletions of the accounts, one call at a time, the process staying up
NextTrust ==
    \/ \E t \in Threads :
          \/ AllIdle /\ (CallRegister(t) \/ CallUpdate(t) \/ CallDelete(t))
          \/ StepReg(t)
          \/ UpdateLock(t)
          \/ UpdateApply(t)
          \/ DeleteLock(t)
          \/ DeleteApply(t)
          \/ AllIdle /\ ReceiveToken(t)
    \/ AllIdle /\ Extract

SpecTrust == InitStore /\ [][NextTrust]_vars

\* ------------------------------------------------------------------ claims
Saving == {"s_lock", "s_open", "s_write", "s_rename"}
Mutations == {"create", "update", "delete", "register"}

\* an account other than u holds u's username under to_lowercase
NameHeldByOther(c, u) ==
    \E i \in DOMAIN c : i # u.id /\ ToLower(c[i].username) = ToLower(u.username)

\* thread t takes the step that inserts the account of its create call
InsertsByCreate(t) == pc[t] = "c_insert" /\ pc'[t] = "s_lock"

\* thread t returns success from a mutation in this step
ReturnsSuccess(t) ==
    /\ pc[t] # "idle"
    /\ pc'[t] = "idle"
    /\ op[t] \in Mutations
    /\ res'[t] \in {"ok", "true"}

\* C1: concurrent create calls (or registrations) for usernames equal under
\* case folding never both insert: whenever create inserts an account, no
\* other stored account holds its case-folded username, so one of the two
\* calls gets Conflict and the store never holds two such records.
C1_CreateNeverInsertsTakenName ==
    [][\A t \in Threads :
          InsertsByCreate(t) => ~NameHeldByOther(cache, arg[t])]_vars

\* C2: of the accounts stored by concurrent registrations with different
\* usernames at most one is admin: when a registration inserts an account
\* with is_admin = true, no account stored under another username is admin.
C2_RegistrationGrantsOneAdmin ==
    [][\A t \in Threads :
          (InsertsByCreate(t) /\ caller[t] = "register" /\ arg[t].is_admin)
              => \A i \in DOMAIN cache :
                    cache[i].is_admin
                        => ToLower(cache[i].username) = ToLower(arg[t].username)]_vars

\* C3: after calls that all succeeded (the canonical file holds the
\* serialization of the index the process stopped with), opening a store on
\* the same path succeeds and yields exactly those accounts, every field as
\* before.
C3_RestartYieldsCommittedAccounts ==
    [][(up = "down" /\ up' # "down" /\ canon = FullFile(SerializeStore(lastCache)))
          => (up' = "up" /\ cache' = lastCache)]_vars

CanonComplete == canon.kind \in {"absent", "full"}

\* C4: the canonical file is always absent or one complete snapshot, and its
\* content changes only in a rename step.
C4_CanonChangesOnlyByRenameOfSnapshot ==
    [][/\ CanonComplete'
       /\ canon' # canon => \E t \in Threads : pc[t] = "s_rename" /\ pc'[t] = "idle"]_vars

\* C5: at the moment create, update or delete returns success, the canonical
\* file holds a complete snapshot, the serialization of the index that
\* contains the mutation.
C5_DurableBeforeAcknowledged ==
    [][\A t \in Threads :
          ReturnsSuccess(t) => canon' = FullFile(SerializeStore(cache'))]_vars

\* C6: with calls executed one at a time (and no I/O error), at most one
\* stored account holds a given case-folded username.
C6_FoldedUsernamesUnique ==
    faults = 0 =>
        \A i, j \in DOMAIN cache :
            i # j => ToLower(cache[i].username) # ToLower(cache[j].username)

\* C7: a mutation holds the write lock from its change of the index until its
\* persistence has completed: a thread that is persisting holds the write lock.
C7_WriteLockHeldThroughSave ==
    \A t \in Threads : pc[t] \in Saving => lock.writer = {t}

\* a decode or authenticate request that presented a token, and the token
Presented(r) ==
    \/ r.kind = "decode"
    \/ r.kind = "extract" /\ r.header.present /\ StripsPrefix(r.header)

\* C8: a token issued with ttl_days = 0 is rejected with InvalidToken at every
\* time at or after its issuance, by decode_token and by extract_user.
C8_ZeroTtlTokenRejected ==
    (Presented(req) /\ ttlDays = 0) => req.out = InvalidToken

\* C9: decode_token returns InvalidToken for every correctly signed token
\* whose expires_at is earlier than the current time.
C9_DecodeRejectsEveryExpiredToken ==
    (req.kind = "decode" /\ req.token.payload.exp < req.at)
        => req.out = InvalidToken

\* the tokens issued at the time of the request
IssuedNow(r) == {i \in issued : i.at = r.at /\ i.pair.access_token = r.token}

\* C10: for a positive ttl, decoding a token at the time it was issued returns
\* Claims with the subject id, username and is_admin it was issued for.
C10_TokenRoundTrip ==
    (req.kind = "decode" /\ ttlDays > 0) =>
        \A i \in IssuedNow(req) :
            /\ req.out.ok
            /\ req.out.val.sub = i.for.id
            /\ req.out.val.username = i.for.username
            /\ req.out.val.is_admin = i.for.is_admin

C10_Witness ==
    /\ req.kind = "decode"
    /\ ttlDays > 0
    /\ IssuedNow(req) # {}
    /\ req.out.ok
    /\ req.out.val.is_admin

\* the token a request presented
TokenOf(r) == IF r.kind = "decode" THEN r.token ELSE r.header.token

\* C11: decode_token and extract_user accept only a token the process signed
\* with its secret over exactly the presented payload: a token signed under
\* another key, or with an altered payload, or structurally corrupt, gets
\* InvalidToken and none of its fields is returned.
C11_OnlySignedTokensAccepted ==
    (Presented(req) /\ TokenOf(req) \notin IssuedTokens) => req.out = InvalidToken

C11_Witness ==
    /\ req.kind = "extract"
    /\ Presented(req)
    /\ TokenOf(req) \notin IssuedTokens
    /\ TokenOf(req).sig = Mac(Secret, [TokenOf(req).payload EXCEPT !.is_admin = FALSE])
    /\ TokenOf(req).payload.is_admin
    /\ req.out = InvalidToken

\* thread t takes the step of login that looks the account up and verifies
LoginChecks(t) ==
    op[t] = "login" /\ pc[t] = "l_find" /\ pc'[t] # "l_find" /\ up' = "up"

\* the password of t's login request is the password of no account that
\* has the username of the request
WrongOrUnknown(t) ==
    \A u \in FindByUsername(cache, arg[t].username) :
        u.password_hash # HashPassword(arg[t].password, u.password_hash.salt)

\* the login of t is refused as invalid credentials and has changed nothing
RefusedAlike(t) ==
    /\ pc'[t] = "idle"
    /\ res'[t] = "unauthorized"
    /\ ret'[t] = ErrorBody(InvalidCredentials)
    /\ <<cache, canon, tmp>>' = <<cache, canon, tmp>>

\* C12 as stated: in every store state, a login with an existing username and
\* a wrong password and a login with an unknown username return the same
\* error value and message, InvalidCredentials, change nothing in the store
\* and issue no token.
C12_SameRefusalInEveryStore ==
    [][\A t \in Threads : (LoginChecks(t) /\ WrongOrUnknown(t)) => RefusedAlike(t)]_vars

\* every stored account that has the username of t's request has a hash
\* that is a PHC string
HashesParse(t) ==
    \A u \in FindByUsername(cache, arg[t].username) : u.password_hash.wf

\* C12, amended: in every store state whose hashes are well-formed, a login
\* with an existing username and a wrong password and a login with an unknown
\* username return the same error value and message, InvalidCredentials,
\* change nothing in the store and issue no token.
C12_SameRefusalWhenHashesParse ==
    [][\A t \in Threads :
          (LoginChecks(t) /\ WrongOrUnknown(t) /\ HashesParse(t)) => RefusedAlike(t)]_vars

\* a create and a login have run; the login, for the username of the stored
\* account, whose hash is well-formed, was refused: its password was wrong
C12_Witness ==
    /\ calls = 2
    /\ \E t \in Threads :
          /\ pc[t] = "idle"
          /\ op[t] = "login"
          /\ res[t] = "unauthorized"
          /\ ret[t] = ErrorBody(InvalidCredentials)
          /\ FindByUsername(cache, arg[t].username) # {}
          /\ \A u \in FindByUsername(cache, arg[t].username) : u.password_hash.wf

\* thread t returns success from a registration in this step
RegistrationSucceeds(t) == ReturnsSuccess(t) /\ op[t] = "register"

\* C13: in a sequential run of registrations on an initially empty store the
\* first registration that succeeds stores an account with is_admin = true,
\* and every later one an account with is_admin = false.
C13_FirstRegisteredIsAdmin ==
    [][\A t \in Threads :
          RegistrationSucceeds(t) => (arg[t].is_admin <=> ~registered)]_vars

\* C14: over a sequential history of registrations and deletions only the
\* first account is granted is_admin = true: once a registration has
\* succeeded, no registration inserts an account with is_admin = true, also
\* not after deletions have emptied the store (and with no I/O error).
C14_AdminGrantedOnce ==
    [][\A t \in Threads :
          (InsertsByCreate(t) /\ caller[t] = "register" /\ registered /\ faults = 0)
              => ~arg[t].is_admin]_vars

\* thread t runs a login whose password has verified: it is in the update of
\* last_login
LoginVerified(t) == op[t] = "login" /\ caller[t] = "login"

\* C15: a login whose password verifies returns success with a token for the
\* account, whatever the update of last_login returns (NotFound, an I/O
\* error, or Ok).
C15_VerifiedLoginSucceeds ==
    [][\A t \in Threads :
          (LoginVerified(t) /\ pc'[t] = "idle" /\ up' = "up")
              => /\ res'[t] = "ok"
                 /\ ret'[t].kind = "auth"
                 /\ ret'[t].user.id = arg[t].id
                 /\ ret'[t].token.access_token.payload.sub = arg[t].id]_vars

\* a create and a login have run; the login returned success although the
\* one I/O error hit its save: the file still has the record without the
\* last_login the index has
C15_Witness ==
    /\ calls = 2
    /\ faults = 1
    /\ canon.kind = "full"
    /\ canon # FullFile(SerializeStore(cache))
    /\ \E t \in Threads :
          /\ pc[t] = "idle"
          /\ op[t] = "login"
          /\ res[t] = "ok"
          /\ ret[t].kind = "auth"
          /\ ret[t].user.id \in DOMAIN cache
          /\ cache[ret[t].user.id].last_login # None

\* thread t takes the step of login's update that writes the account back
LoginWritesBack(t) ==
    /\ LoginVerified(t)
    /\ pc[t] = "u_apply"
    /\ pc'[t] = "s_lock"

\* C16: a login never changes the stored password_hash of the account, also
\* when it interleaves with an update of the same account: the record it
\* writes back has the password_hash the index holds.
C16_LoginKeepsCredential ==
    [][\A t \in Threads :
          LoginWritesBack(t)
              => cache'[arg[t].id].password_hash = cache[arg[t].id].password_hash]_vars

Reads == {"find_by_id", "find_by_username", "list_all", "count"}

\* thread t returns from a read in this step
ReadReturns(t) ==
    op[t] \in Reads /\ pc[t] # "idle" /\ pc'[t] = "idle" /\ up' = "up"

\* what the read of thread t may return of the index c
ReadOf(c, t) ==
    CASE op[t] = "find_by_id" -> {UserVal(FindById(c, arg[t].id))}
      [] op[t] = "find_by_username" ->
            IF FindByUsername(c, arg[t].username) = {}
            THEN {UserVal(None)}
            ELSE {UserVal(Some(u)) : u \in FindByUsername(c, arg[t].username)}
      [] op[t] = "list_all" -> {ListVal({c[i] : i \in DOMAIN c})}
      [] op[t] = "count" -> {CountVal(Cardinality(DOMAIN c))}

Returned(t, a) ==
    /\ ret'[t].kind = "user"
    /\ ret'[t].user # None
    /\ ret'[t].user[1].id = a.id

\* C18: once create has returned success, every later find_by_id with the id
\* of the new account and every later find_by_username with its username
\* (in any capitalization) returns that account, until it is deleted (here
\* with calls one at a time and no I/O error).
C18_CreatedStaysVisible ==
    [][\A t \in Threads : \A a \in live :
          /\ (ReadReturns(t) /\ faults = 0 /\ op[t] = "find_by_id" /\ arg[t].id = a.id)
                => Returned(t, a)
          /\ (ReadReturns(t) /\ faults = 0 /\ op[t] = "find_by_username"
                  /\ ToLower(arg[t].username) = ToLower(a.username))
                => Returned(t, a)]_vars

\* the ids of the accounts of c whose username equals name under to_lowercase
Holders(c, name) == {i \in DOMAIN c : ToLower(c[i].username) = ToLower(name)}

Proceeds(t, o) ==
    op[t] = o /\ caller[t] = "none" /\ pc'[t] # pc[t] /\ up' = "up"

\* the step leaves the index and the files as they are
StoreUnchanged == <<cache, canon, tmp>>' = <<cache, canon, tmp>>

\* C20: create returns Conflict whenever a stored account has the username
\* under case folding, and update returns NotFound whenever no stored account
\* has the id; neither call then changes the index or the canonical file.
C20_ConflictAndNotFoundChangeNothing ==
    [][\A t \in Threads :
          /\ (Proceeds(t, "create") /\ pc[t] = "c_check"
                  /\ Holders(cache, arg[t].username) # {})
                => (pc'[t] = "idle" /\ res'[t] = "conflict" /\ StoreUnchanged)
          /\ (Proceeds(t, "update") /\ pc[t] = "u_lock"
                  /\ arg[t].id \notin DOMAIN cache)
                => (pc'[t] = "u_apply" /\ StoreUnchanged)
          /\ (Proceeds(t, "update") /\ pc[t] = "u_apply"
                  /\ arg[t].id \notin DOMAIN cache)
                => (pc'[t] = "idle" /\ res'[t] = "notfound" /\ StoreUnchanged)]_vars

\* a create stored an account and a second create got Conflict; the file
\* holds what the index holds
C20_Witness ==
    /\ calls = 2
    /\ Cardinality(DOMAIN cache) = 1
    /\ canon = FullFile(SerializeStore(cache))
    /\ \E t \in Threads :
          /\ pc[t] = "idle"
          /\ op[t] = "create"
          /\ res[t] = "conflict"

\* thread t returns from delete in this step
DeleteReturns(t) ==
    op[t] = "delete" /\ pc[t] # "idle" /\ pc'[t] = "idle" /\ up' = "up"

\* thread t takes the step of delete that removes from the index
DeleteApplies(t) ==
    op[t] = "delete" /\ pc[t] = "d_apply" /\ pc'[t] # "d_apply" /\ up' = "up"

\* C21: delete(id) returns true exactly when an account with that id was
\* stored when the call took effect (a delete that went on to persist had
\* removed one); right after the removal find_by_id(id) finds nothing and every
\* other account is as before; a delete that returns false changes neither
\* the index nor the canonical file.
C21_DeleteReturnsWhetherRemoved ==
    [][\A t \in Threads :
          /\ DeleteApplies(t)
                => /\ FindById(cache', arg[t].id) = None
                   /\ \A i \in DOMAIN cache \ {arg[t].id} :
                          i \in DOMAIN cache' /\ cache'[i] = cache[i]
                   /\ arg[t].id \notin DOMAIN cache
                          => (pc'[t] = "idle" /\ res'[t] = "false" /\ StoreUnchanged)
          /\ (DeleteReturns(t) /\ pc[t] \in Saving) => res'[t] = "true"
          /\ (DeleteReturns(t) /\ res'[t] = "false") => StoreUnchanged]_vars

\* the process opens the store in this step
Opens == up = "down" /\ up' # "down"

\* the file is not the serialization of a list of accounts: it is cut short,
\* or one of its records lacks a field of User
Unparsable(f) ==
    \/ f.kind \in {"empty", "torn"}
    \/ f.kind = "full" /\ \E r \in f.users : ~(UserFields \subseteq DOMAIN r)

\* C22: opening a store whose canonical file does not exist succeeds with an
\* empty index; opening a store whose canonical file exists but does not
\* parse as a list of accounts returns an error and yields no store: no call
\* runs on it, and nothing of the process changes after the error.
C22_OpenEmptyOrFailLoudly ==
    [][/\ (Opens /\ canon.kind = "absent") => (up' = "up" /\ cache' = EmptyCache)
       /\ (Opens /\ Unparsable(canon)) => up' = "failed"
       /\ up = "failed" => UNCHANGED vars]_vars

\* the process was stopped after a registration had been persisted; opening
\* the store on that file, whose record has no password_hash, has failed
C22_Witness ==
    /\ up = "failed"
    /\ registered
    /\ canon.kind = "full"
    /\ canon.users # {}
    /\ Unparsable(canon)
    /\ AllIdle

\* the scheme prefix under ASCII case folding
SchemeLower(scheme) ==
    IF scheme \in {"Bearer ", "bearer ", "BEARER "} THEN "bearer " ELSE scheme

\* the request carried a header with a token the process issued and that has
\* not expired at the time of the request
CarriesValidToken(r) ==
    /\ r.kind = "extract"
    /\ r.header.present
    /\ r.header.token \in IssuedTokens
    /\ r.header.token.payload.exp >= r.at

\* C23: the scheme prefix of the Authorization header is matched
\* case-insensitively: every capitalization of "Bearer " followed by a valid
\* unexpired token yields the Identity Context of that token.
C23_SchemeMatchedIgnoringCase ==
    (CarriesValidToken(req) /\ SchemeLower(req.header.scheme) = "bearer ")
        => req.out = Ok(FromClaims(req.header.token.payload))

\* an authentication request was refused with Unauthorized, status 401
RefusedUnauthorized(r) ==
    /\ ~r.out.ok
    /\ r.out.code = "UNAUTHORIZED"
    /\ StatusCode(r.out.code) = 401

IssuedAs(r) == {i \in issued : i.pair.access_token = r.header.token}

\* C25: authenticating an issued, unexpired token yields the Identity Context
\* (id, username, is_admin) the token was issued for, whatever has happened
\* to the account in the store since: the result is that of the token alone.
C25_TokenOutlivesStoreChanges ==
    (CarriesValidToken(req) /\ StripsPrefix(req.header))
        => \A i \in IssuedAs(req) : req.out = Ok(i.for)

\* a request with the token of a registration was authenticated as the admin
\* the token was issued for, after the account had been deleted
C25_Witness ==
    /\ CarriesValidToken(req)
    /\ req.out.ok
    /\ req.out.val.is_admin
    /\ IssuedAs(req) # {}
    /\ req.out.val.id \notin DOMAIN cache
    /\ \E t \in Threads : op[t] = "delete" /\ res[t] = "true"

\* thread t receives a registration request in this step
RegisterStarts(t) ==
    /\ pc[t] = "idle"
    /\ calls' = calls + 1
    /\ op'[t] = "register"
    /\ "password" \in DOMAIN arg'[t]

\* the body is out of the limits of the claim: the username shorter than 3
\* or longer than 32 characters or with a character that is no letter, digit
\* or underscore, the password shorter than 8 or longer than 128 characters
OutOfShape(body) ==
    \/ Len(body.username) < 3
    \/ Len(body.username) > 32
    \/ body.username \in OtherCharNames
    \/ Len(body.password) < 8
    \/ Len(body.password) > 128

\* C26: a registration whose username or password is out of shape is
\* rejected with ValidationError before any store access: the request returns
\* in the step it arrives in, no account is created, index, files and lock
\* are unchanged and no token is issued.
C26_MalformedRegistrationRejected ==
    [][\A t \in Threads :
          (RegisterStarts(t) /\ OutOfShape(arg'[t]))
              => /\ pc'[t] = "idle"
                 /\ res'[t] = "validation"
                 /\ ret'[t].kind = "error"
                 /\ ret'[t].err.code = "VALIDATION_ERROR"
                 /\ StatusCode(ret'[t].err.code) = 422
                 /\ <<cache, canon, tmp, lock, registered, live>>'
                        = <<cache, canon, tmp, lock, registered, live>>]_vars

\* after a registration that stored an account, a registration with a
\* username of 33 characters was refused and the store holds that one account
C26_Witness ==
    /\ registered
    /\ Cardinality(DOMAIN cache) = 1
    /\ \E t \in Threads :
          /\ pc[t] = "idle"
          /\ op[t] = "register"
          /\ res[t] = "validation"
          /\ arg[t].username = LongName
          /\ ret[t] = ErrorBody(Err("VALIDATION_ERROR",
                                    {"Username must be 3-32 characters"}))

\* the error bodies of the 500 class that requests have been answered with
InternalErrors ==
    {ret[t].err : t \in {x \in Threads : /\ ret[x].kind = "error"
                                         /\ StatusCode(ret[x].err.code) = 500}}

\* C27: when a storage failure or a hashing failure fails a request, the
\* error reported to the caller is one opaque internal error: the same error
\* code and message whatever the failure was.
C27_InternalErrorsOpaque == Cardinality(InternalErrors) <= 1

\* every account with the username of t's login request has a stored hash
\* that is not a well-formed encoding, and there is such an account
HashesMalformed(t) ==
    /\ FindByUsername(cache, arg[t].username) # {}
    /\ \A u \in FindByUsername(cache, arg[t].username) : ~u.password_hash.wf

\* C28: verify fails closed: for a stored hash that is not a well-formed hash
\* encoding it returns an internal error, never true, for every password; a
\* login against an account with such a hash returns an internal error,
\* issues no token and leaves the store unchanged.
C28_VerifyFailsClosed ==
    [][\A t \in Threads :
          (LoginChecks(t) /\ HashesMalformed(t))
              => /\ \A p \in LoginPasswords :
                        /\ ~VerifyPassword(p, BadHash).ok
                        /\ VerifyPassword(p, BadHash).code = "INTERNAL_ERROR"
                 /\ pc'[t] = "idle"
                 /\ res'[t] = "internal"
                 /\ ret'[t].kind = "error"
                 /\ ret'[t].err.code = "INTERNAL_ERROR"
                 /\ StatusCode(ret'[t].err.code) = 500
                 /\ StoreUnchanged]_vars

\* a create stored an account with a hash that does not parse; the login for
\* it was answered with the internal error
C28_Witness ==
    /\ calls = 2
    /\ \E t \in Threads :
          /\ pc[t] = "idle"
          /\ op[t] = "login"
          /\ res[t] = "internal"
          /\ ret[t] = ErrorBody(Err("INTERNAL_ERROR", "Failed to verify password"))
          /\ \E i \in DOMAIN cache :
                cache[i].username = arg[t].username /\ cache[i].password_hash = BadHash

\* an account stored under the username of t's login request (in any
\* capitalization) was registered with the password of the request
PasswordIsRegistered(t) ==
    \E u \in FindByUsername(cache, arg[t].username) :
        \E salt \in Salts : u.password_hash = HashPassword(arg[t].password, salt)

\* C29: verify(p, hash(p)) is true and verify(p1, hash(p2)) is false for
\* p1 # p2; consequently a login succeeds (goes on to the token) exactly when
\* the password supplied is the one the account was registered with.
C29_LoginSucceedsOnRegisteredPassword ==
    [][\A t \in Threads :
          LoginChecks(t)
              => /\ \A p1, p2 \in LoginPasswords : \A salt \in Salts :
                        VerifyPassword(p1, HashPassword(p2, salt)) = Ok(p1 = p2)
                 /\ pc'[t] = "u_lock" <=> PasswordIsRegistered(t)]_vars

\* C30: for every configured ttl_days the Claims built at issuance have
\* expires_at = issued_at + ttl_days * 86400, issued_at being the time of
\* issuance, and the expires_in returned with the token is ttl_days * 86400,
\* that is expires_at - issued_at.
C30_ExpiryIsTtlInSeconds ==
    \A i \in issued :
        LET claims == i.pair.access_token.payload IN
        /\ claims.iat = i.at
        /\ claims.exp = claims.iat + ttlDays * 86400
        /\ i.pair.expires_in = ttlDays * 86400
        /\ i.pair.expires_in = claims.exp - claims.iat

\* a token was issued under a ttl of 7 days after the clock had advanced
C30_Witness ==
    /\ ttlDays = 7
    /\ \E i \in issued :
          /\ i.at > 0
          /\ i.pair.expires_in = 604800
          /\ i.pair.access_token.payload.exp = i.at + 604800

\* C31: a token rejected because it is expired and a token rejected because
\* its signature or structure is bad are indistinguishable to the caller:
\* every request that presented a token and was refused, by decode_token or
\* by extract_user, got the one InvalidToken error value and message.
C31_TokenRefusalsIndistinguishable ==
    (Presented(req) /\ ~req.out.ok) => req.out = InvalidToken

\* extract_user has refused an expired token that decode_token accepts within
\* its leeway: the refusal is the authenticator's own, and it is InvalidToken
C31_Witness ==
    /\ req.kind = "extract"
    /\ Presented(req)
    /\ req.header.token \in IssuedTokens
    /\ req.header.token.payload.exp < req.at
    /\ DecodeToken(req.header.token, req.at).ok
    /\ req.out = InvalidToken

\* the threads that hold the lock
LockHolders == lock.writer \cup lock.readers

\* the statements at which a thread requests the lock
Requesting ==
    {"c_check", "c_lock", "u_lock", "d_lock", "s_lock",
     "f_id", "f_name", "f_all", "f_count"}

\* C32: under fair scheduling every operation of the store that concurrent
\* callers started eventually returns, and has then released the lock; no
\* thread requests the lock while it holds it.
C32_StoreCallsReturn ==
    /\ [](\A t \in Threads :
            /\ pc[t] \in Requesting \cup {"idle"} => t \notin LockHolders)
    /\ \A t \in Threads : (pc[t] # "idle") ~> (pc[t] = "idle")

\* a delete waits for the write lock while the create of another thread is
\* inside its save, holding the read lock over the file-system calls
C32_Witness ==
    \E t, w \in Threads :
        /\ t # w
        /\ op[t] = "delete"
        /\ pc[t] = "d_lock"
        /\ op[w] = "create"
        /\ pc[w] \in {"s_open", "s_write", "s_rename"}
        /\ w \in lock.readers

\* C33: the Request Authenticator never yields an Identity Context for a
\* token whose expires_at is earlier than the time of the request: every such
\* request is rejected with InvalidToken, also when decode_token accepts the
\* token.
C33_AuthenticatorRejectsExpired ==
    (req.kind = "extract" /\ Presented(req) /\ req.header.token.payload.exp < req.at)
        => req.out = InvalidToken

\* a token of one day presented one second after its expiry, under a codec
\* that allows 60 seconds of leeway, was refused by extract_user
C33_Witness ==
    /\ ttlDays = 1
    /\ leeway = 60
    /\ req.kind = "extract"
    /\ Presented(req)
    /\ req.header.token \in IssuedTokens
    /\ req.at = req.header.token.payload.exp + 1
    /\ req.out = InvalidToken

\* thread t returns an error from a call in this step
ReturnsError(t) ==
    /\ pc[t] # "idle"
    /\ pc'[t] = "idle"
    /\ res'[t] \notin {"ok", "true", "false"}

\* the index c holds the account u, field by field
Stored(c, u) == u.id \in DOMAIN c /\ c[u.id] = u

\* the canonical file f records the account u
Recorded(f, u) == f.kind = "full" /\ SerializeUser(u) \in f.users

\* C34: if create or update returns an error of any kind, a storage failure
\* of the persistence step included, the index is as it was before the call:
\* no read after the call returns the account passed to it, unless that very
\* account was stored and persisted before the call.
C34_FailedMutationLeavesIndex ==
    [][\A t \in Threads :
          (op[t] \in {"create", "update"} /\ caller[t] = "none" /\ ReturnsError(t))
              => (Stored(cache', arg[t]) => Recorded(canon', arg[t]))]_vars

\* the account ids the file f records; an absent file records none
RecordedIds(f) == {r.id : r \in f.users}

\* C35: whenever no mutation is in flight, the account ids recorded in the
\* canonical file are the account ids of the index, after any sequence of
\* create, update and delete calls, whether they returned success or an error.
C35_FileAndIndexAgree ==
    (up = "up" /\ AllIdle) => RecordedIds(canon) = DOMAIN cache

\* C36: a create that succeeds adds exactly one account: in the step in which
\* it inserts (the one step of create that changes the index; no I/O error
\* has occurred or occurs) count grows by exactly one and every account stored
\* before is still stored with all its fields, whatever id the new account
\* carries.
C36_CreateAddsExactlyOne ==
    [][\A t \in Threads :
          (InsertsByCreate(t) /\ op[t] = "create" /\ faults = 0)
              => /\ Cardinality(DOMAIN cache') = Cardinality(DOMAIN cache) + 1
                 /\ \A i \in DOMAIN cache : Stored(cache', cache[i])]_vars

\* thread t, running a login, takes a step
LoginSteps(t) == caller[t] = "login" /\ pc'[t] # pc[t]

\* C37: if an account is deleted between a login's lookup of it and that
\* login's update of last_login, the account stays deleted: no step of a
\* login adds an id to the index, the update of a login whose account is gone
\* changes nothing, and the login still returns success.
C37_LoginNeverReinserts ==
    [][\A t \in Threads :
          LoginSteps(t)
              => /\ DOMAIN cache' \subseteq DOMAIN cache
                 /\ (pc[t] = "u_apply" /\ arg[t].id \notin DOMAIN cache /\ up' = "up")
                        => /\ StoreUnchanged
                           /\ pc'[t] = "idle"
                           /\ res'[t] = "ok"]_vars

\* a login has returned success for an account that a delete, still to
\* persist, has removed; no I/O error has occurred and the canonical file
\* still records the account without a last_login: the login's update came
\* after the removal and found nothing
C37_Witness ==
    \E t, w \in Threads :
        /\ t # w
        /\ faults = 0
        /\ pc[t] = "idle"
        /\ op[t] = "login"
        /\ res[t] = "ok"
        /\ ret[t].kind = "auth"
        /\ op[w] = "delete"
        /\ pc[w] = "s_lock"
        /\ arg[w].id = ret[t].user.id
        /\ ret[t].user.id \notin DOMAIN cache
        /\ canon.kind = "full"
        /\ \E r \in canon.users : r.id = arg[w].id /\ r.last_login = None

\* the quotient rounded up, from quotient and remainder
Ceil(a, b) == IF a % b = 0 THEN a \div b ELSE a \div b + 1

\* C38: for every total and every per_page >= 1, PaginatedResponse::from_vec
\* returns total_pages = the ceiling of total / per_page, has_next = (page <
\* total_pages) and has_prev = (page > 1); list_music calls it with page >= 1
\* and 1 <= per_page <= 100 only, so it never divides by zero.
C38_PaginationArithmetic ==
    (req.kind \in {"from_vec", "list"} /\ req.called)
        => /\ req.per_page >= 1
                => /\ req.out.ok
                   /\ req.out.val.total_pages = Ceil(req.total, req.per_page)
                   /\ req.out.val.has_next <=> req.page < Ceil(req.total, req.per_page)
                   /\ req.out.val.has_prev <=> req.page > 1
           /\ req.kind = "list"
                => /\ req.page >= 1
                   /\ req.per_page >= 1
                   /\ req.per_page <= PerPageMax
====
